---- MODULE Spec2Model ----
(***************************************************************************)
(* Model of the Mews availability proxy (Vercel serverless handler).       *)
(*                                                                         *)
(* The repository holds several revisions of the handler                   *)
(* api/mews-availability.js.  The variable "variant" says which of them    *)
(* serves the request.  Four files load as modules (Variants):             *)
(*   "api"   src/api/mews-availability.js   (T15:00 anchor, no workaround) *)
(*   "p004"  src/unnamed/part_004           (T22:00 anchor, missing-last-  *)
(*                                           day workaround, sorted output)*)
(*   "p001"  src/unnamed/part_001           (resources endpoint, default   *)
(*                                           base URL, no OPTIONS branch)  *)
(*   "p002"  src/unnamed/part_002           (resources endpoint, no        *)
(*                                           OPTIONS branch)               *)
(* src/unnamed/part_003 declares `export default async function handler`  *)
(* twice (lines 6 and 137): as the file stands it is a SyntaxError, loads  *)
(* as no module and serves no request.  Its two declarations are modelled  *)
(* each as the only one of its file (Part003Handlers), and only the        *)
(* specifications SpecDeclared and SpecLive start from them:               *)
(*   "luxon" src/unnamed/part_003:1-135     (anchor: midnight of the time  *)
(*                                           zone MEWS_TIME_ZONE, or of    *)
(*                                           America/Denver when unset)    *)
(*   "brute" src/unnamed/part_003:137-295   (24-hour probing loop)         *)
(*                                                                         *)
(* JavaScript strings are sequences of one-character strings, so that the  *)
(* regular expression test, substring(0, 10), the default Array sort and   *)
(* the Date parse / toISOString round trip are computed, not assumed.      *)
(* JavaScript values that may be undefined / null / of another type are    *)
(* records [t |-> <type tag>, ...].                                        *)
(***************************************************************************)
EXTENDS Integers, Sequences, FiniteSets, TLC

(***************************************************************************)
(* Bounds of the model.                                                    *)
(***************************************************************************)
\* Longest boundary sequence an upstream report carries.
MaxUnits == 5
\* Longest boundary sequence whose order, repetition and count types are
\* fully arbitrary.
MaxOdd == 2

(***************************************************************************)
(* Characters and strings.                                                 *)
(***************************************************************************)
Digits == <<"0", "1", "2", "3", "4", "5", "6", "7", "8", "9">>

IsDigit(c) == \E i \in 1..10 : Digits[i] = c

DigitVal(c) == (CHOOSE i \in 1..10 : Digits[i] = c) - 1

\* UTF-16 code unit of the characters the model uses (String.prototype
\* comparison, used by the default Array.prototype.sort).
CharCode(c) ==
    CASE c = "+" -> 43
      [] c = "-" -> 45
      [] c = "." -> 46
      [] IsDigit(c) -> 48 + DigitVal(c)
      [] c = ":" -> 58
      [] c = "T" -> 84
      [] c = "Z" -> 90
      [] c = "a" -> 97
      [] c = "b" -> 98
      [] c = "d" -> 100
      [] OTHER -> 120

\* a < b as JavaScript compares strings: by code unit, a proper prefix first.
RECURSIVE StrLess(_, _)
StrLess(a, b) ==
    IF b = <<>> THEN FALSE
    ELSE IF a = <<>> THEN TRUE
    ELSE IF CharCode(Head(a)) # CharCode(Head(b))
         THEN CharCode(Head(a)) < CharCode(Head(b))
         ELSE StrLess(Tail(a), Tail(b))

\* String.prototype.substring(0, n).
Substring0(s, n) == SubSeq(s, 1, IF Len(s) < n THEN Len(s) ELSE n)

\* /^\d{4}-\d{2}-\d{2}$/.test(s)
DatePatternTest(s) ==
    /\ Len(s) = 10
    /\ \A i \in {1, 2, 3, 4, 6, 7, 9, 10} : IsDigit(s[i])
    /\ s[5] = "-"
    /\ s[8] = "-"

(***************************************************************************)
(* Calendar arithmetic of the JavaScript Date object (UTC).                *)
(***************************************************************************)
IsLeap(y) == (y % 4 = 0 /\ y % 100 # 0) \/ y % 400 = 0

DaysInMonth(y, m) ==
    IF m = 2 THEN (IF IsLeap(y) THEN 29 ELSE 28)
    ELSE IF m \in {4, 6, 9, 11} THEN 30 ELSE 31

Pad2(n) == <<Digits[((n \div 10) % 10) + 1], Digits[(n % 10) + 1]>>

Pad4(n) == Pad2(n \div 100) \o Pad2(n % 100)

\* The numeric fields of a string that passes DatePatternTest.
DateFields(s) ==
    [y |-> 1000 * DigitVal(s[1]) + 100 * DigitVal(s[2])
             + 10 * DigitVal(s[3]) + DigitVal(s[4]),
     m |-> 10 * DigitVal(s[6]) + DigitVal(s[7]),
     d |-> 10 * DigitVal(s[9]) + DigitVal(s[10])]

\* Whether new Date(`${s}T..:..:..Z`) is a valid date in Node (V8): the ISO
\* parser accepts month 1..12 and day 1..31 and lets MakeDay carry a day past
\* the month's end into the next month.
DateParses(s) ==
    /\ DatePatternTest(s)
    /\ DateFields(s).m \in 1..12
    /\ DateFields(s).d \in 1..31

\* Carry of a day of month past the end of the month (MakeDay).
Normalize(f) ==
    IF f.d <= DaysInMonth(f.y, f.m) THEN f
    ELSE IF f.m = 12
         THEN [y |-> f.y + 1, m |-> 1, d |-> f.d - DaysInMonth(f.y, f.m)]
         ELSE [y |-> f.y, m |-> f.m + 1, d |-> f.d - DaysInMonth(f.y, f.m)]

\* toISOString().substring(0, 10) for years 0..9999.
FormatDate(f) == Pad4(f.y) \o <<"-">> \o Pad2(f.m) \o <<"-">> \o Pad2(f.d)

\* Date.prototype.setUTCDate(getUTCDate() + 1) on a normalized date.
NextDayFields(n) ==
    IF n.d + 1 <= DaysInMonth(n.y, n.m) THEN [n EXCEPT !.d = n.d + 1]
    ELSE IF n.m = 12 THEN [y |-> n.y + 1, m |-> 1, d |-> 1]
    ELSE [y |-> n.y, m |-> n.m + 1, d |-> 1]

\* The calendar day after a calendar day (used by the upstream's reports and
\* by the properties, not by the handlers).
DayAfter(date) == FormatDate(NextDayFields(Normalize(DateFields(date))))

\* Mutant of addOneDay: the day of month is incremented without carrying
\* into the next month.
addOneDayNoCarry(dateString) ==
    IF DateParses(dateString)
    THEN [threw |-> FALSE,
          s |-> FormatDate([DateFields(dateString) EXCEPT !.d = @ + 1])]
    ELSE [threw |-> TRUE, s |-> <<>>]

\* Mutant of addOneDay: setUTCDate(getUTCDate() + 2).
addTwoDays(dateString) ==
    IF DateParses(dateString)
    THEN [threw |-> FALSE, s |-> DayAfter(DayAfter(dateString))]
    ELSE [threw |-> TRUE, s |-> <<>>]

\* addOneDay(dateString) of the workaround.  An unparsable string gives an
\* Invalid Date, whose toISOString() throws a RangeError: threw = TRUE.
addOneDay(dateString) ==
    IF DateParses(dateString)
    THEN [threw |-> FALSE,
          s |-> FormatDate(NextDayFields(Normalize(DateFields(dateString))))]
    ELSE [threw |-> TRUE, s |-> <<>>]

(***************************************************************************)
(* The start of a day of a time zone in UTC (luxon, IANA time zone data).  *)
(***************************************************************************)
\* Day of the week, 0 = Sunday (Gregorian calendar).
DayOfWeek(y, m, d) ==
    LET t == <<0, 3, 2, 5, 0, 3, 5, 1, 4, 6, 2, 4>>
        yy == IF m < 3 THEN y - 1 ELSE y
    IN (yy + (yy \div 4) - (yy \div 100) + (yy \div 400) + t[m] + d) % 7

\* Day of the month of the last Sunday of the month m.
LastSunday(y, m) ==
    CHOOSE d \in (DaysInMonth(y, m) - 6)..DaysInMonth(y, m) :
        DayOfWeek(y, m, d) = 0

\* Daylight saving time of the United States at 00:00 local time of the
\* calendar day f, for the years from 1967.  It starts at 02:00 of the
\* second Sunday of March (since 2007; first Sunday of April 1987-2006;
\* last Sunday of April before, but 6 January in 1974 and 23 February in
\* 1975) and ends at 02:00 of the first Sunday of November (since 2007;
\* last Sunday of October before), so at 00:00 it is in force after the day
\* it starts and up to the day it ends.
UsDstAtMidnight(f) ==
    LET firstSun(m) == CHOOSE d \in 1..7 : DayOfWeek(f.y, m, d) = 0
        secondSun(m) == CHOOSE d \in 8..14 : DayOfWeek(f.y, m, d) = 0
        start == IF f.y >= 2007 THEN 300 + secondSun(3)
                 ELSE IF f.y >= 1987 THEN 400 + firstSun(4)
                 ELSE IF f.y = 1975 THEN 223
                 ELSE IF f.y = 1974 THEN 106
                 ELSE 400 + LastSunday(f.y, 4)
        end == IF f.y >= 2007 THEN 1100 + firstSun(11)
               ELSE 1000 + LastSunday(f.y, 10)
        day == 100 * f.m + f.d
    IN start < day /\ day <= end

\* Summer time of the European Union at 00:00 local time of the calendar
\* day f in a zone of Central European Time, for the years from 1996: from
\* 01:00 UTC of the last Sunday of March to 01:00 UTC of the last Sunday of
\* October.
EuDstAtMidnight(f) ==
    LET day == 100 * f.m + f.d
    IN 300 + LastSunday(f.y, 3) < day /\ day <= 1000 + LastSunday(f.y, 10)

\* const TZ = process.env.MEWS_TIME_ZONE || 'America/Denver'.
DefaultTimeZone == "America/Denver"

\* The zones of the time zone data that are modelled, and a name that is
\* no zone.
KnownZones == {"America/Denver", "America/Phoenix", "UTC", "Europe/Prague",
               "Asia/Tokyo"}
NotAZone == "Mars/Phobos"
ZoneNames == KnownZones \cup {NotAZone}

\* Whether luxon finds the zone (defined for the names of ZoneNames).
ZoneIsValid(z) ==
    CASE z \in KnownZones -> TRUE
      [] z = NotAZone -> FALSE

\* The rule of a modelled zone: its standard offset in hours east of UTC,
\* its daylight saving rule, and the first year from which the zone has
\* followed both without exception.
ZoneRule(z) ==
    CASE z = "America/Denver" -> [std |-> -7, dst |-> "US", from |-> 1967]
      [] z = "America/Phoenix" -> [std |-> -7, dst |-> "none", from |-> 1968]
      [] z = "UTC" -> [std |-> 0, dst |-> "none", from |-> 0]
      [] z = "Europe/Prague" -> [std |-> 1, dst |-> "EU", from |-> 1996]
      [] z = "Asia/Tokyo" -> [std |-> 9, dst |-> "none", from |-> 1952]

\* The offset of the zone z, in hours east of UTC, at 00:00 local time of
\* the calendar day f (defined from the first year of the zone's rule).
ZoneOffsetHours(z, f) ==
    LET r == ZoneRule(z)
    IN CASE f.y >= r.from ->
           IF \/ r.dst = "US" /\ UsDstAtMidnight(f)
              \/ r.dst = "EU" /\ EuDstAtMidnight(f)
           THEN r.std + 1 ELSE r.std

\* The calendar day before a calendar day.
PrevDayFields(f) ==
    IF f.d > 1 THEN [f EXCEPT !.d = f.d - 1]
    ELSE IF f.m > 1
         THEN [y |-> f.y, m |-> f.m - 1, d |-> DaysInMonth(f.y, f.m - 1)]
         ELSE [y |-> f.y - 1, m |-> 12, d |-> 31]

\* DateTime.fromISO(s).isValid for a string that passes the pattern: luxon
\* rejects a month or a day out of range.
LuxonValid(s) ==
    /\ DatePatternTest(s)
    /\ DateFields(s).m \in 1..12
    /\ DateFields(s).d \in 1..DaysInMonth(DateFields(s).y, DateFields(s).m)

(***************************************************************************)
(* JavaScript Set (insertion ordered) and Array.prototype.sort().          *)
(***************************************************************************)
Elems(seq) == {seq[i] : i \in 1..Len(seq)}

\* Set.prototype.add: a Set iterates in insertion order, so it is a
\* duplicate-free sequence.
SetAdd(seq, x) == IF x \in Elems(seq) THEN seq ELSE Append(seq, x)

RECURSIVE InsertSorted(_, _)
InsertSorted(seq, x) ==
    IF seq = <<>> THEN <<x>>
    ELSE IF StrLess(x, Head(seq)) THEN <<x>> \o seq
    ELSE <<Head(seq)>> \o InsertSorted(Tail(seq), x)

\* Array.prototype.sort() with the default (string) comparison.
RECURSIVE SortStrings(_)
SortStrings(seq) ==
    IF seq = <<>> THEN <<>>
    ELSE InsertSorted(SortStrings(SubSeq(seq, 1, Len(seq) - 1)), seq[Len(seq)])

(***************************************************************************)
(* JavaScript values of the upstream report.                               *)
(***************************************************************************)
Undefined == [t |-> "undefined", s |-> <<>>]
\* null where a string is expected (toISO() of an invalid DateTime).
JsNull == [t |-> "null", s |-> <<>>]
Str(chars) == [t |-> "string", s |-> chars]
\* !value for the values above: undefined and "" are falsy.
Truthy(v) == v.t = "string" /\ v.s # <<>>

NoArray == [t |-> "undefined", items |-> <<>>]
Arr(items) == [t |-> "array", items |-> items]
\* A truthy value that is no array: an object where a list is expected.
NotAnArray == [t |-> "object", items |-> <<>>]
\* value && Array.isArray(value)
IsArr(a) == a.t = "array"

Num(n) == [t |-> "number", v |-> n]
Null == [t |-> "null", v |-> 0]

\* Mutant of CountLeqZero: availableCount < 0.
CountLessZero(c) == c.t = "number" /\ c.v < 0

\* availableCount <= 0: a number compares as itself, null converts to 0.
CountLeqZero(c) == IF c.t = "number" THEN c.v <= 0 ELSE c.t = "null"

\* typeof availableCount === 'number' && availableCount <= 0
NumberLeqZero(c) == c.t = "number" /\ c.v <= 0

\* The string with its letters A-Z replaced by a-z.
UpperLetters ==
    <<"A", "B", "C", "D", "E", "F", "G", "H", "I", "J", "K", "L", "M",
      "N", "O", "P", "Q", "R", "S", "T", "U", "V", "W", "X", "Y", "Z">>

LowerLetters ==
    <<"a", "b", "c", "d", "e", "f", "g", "h", "i", "j", "k", "l", "m",
      "n", "o", "p", "q", "r", "s", "t", "u", "v", "w", "x", "y", "z">>

FoldCase(chars) ==
    [i \in 1..Len(chars) |->
        IF \E k \in 1..26 : UpperLetters[k] = chars[i]
        THEN LowerLetters[CHOOSE k \in 1..26 : UpperLetters[k] = chars[i]]
        ELSE chars[i]]

\* Mutant of FindCategory: identifiers are compared without regard to
\* letter case.
FindCategoryIgnoreCase(cats, id) ==
    IF \E i \in 1..Len(cats) : FoldCase(cats[i].CategoryId.s) = FoldCase(id.s)
    THEN CHOOSE i \in 1..Len(cats) :
            /\ FoldCase(cats[i].CategoryId.s) = FoldCase(id.s)
            /\ \A j \in 1..(i - 1) :
                  FoldCase(cats[j].CategoryId.s) # FoldCase(id.s)
    ELSE 0

\* Mutant of FindCategory: when no entry has the identifier, the first entry
\* of the report stands in.
FindCategoryOrFirst(cats, id) ==
    IF \E i \in 1..Len(cats) : cats[i].CategoryId = id
    THEN CHOOSE i \in 1..Len(cats) :
            /\ cats[i].CategoryId = id
            /\ \A j \in 1..(i - 1) : cats[j].CategoryId # id
    ELSE IF Len(cats) > 0 THEN 1 ELSE 0

\* Mutant of FindCategory: the first entry is taken whatever its identifier.
FindCategoryFirst(cats, id) == IF Len(cats) > 0 THEN 1 ELSE 0

\* CategoryAvailabilities.find(catAvail => catAvail.CategoryId === id): the
\* index of the first entry with a strictly equal identifier, 0 when none.
FindCategory(cats, id) ==
    IF \E i \in 1..Len(cats) : cats[i].CategoryId = id
    THEN CHOOSE i \in 1..Len(cats) :
            /\ cats[i].CategoryId = id
            /\ \A j \in 1..(i - 1) : cats[j].CategoryId # id
    ELSE 0

\* The forEach over the boundary sequence: the Set of the calendar days
\* (first ten characters of the boundary) whose count is unavailable.
RECURSIVE CollectUnavailable(_, _, _, _)
CollectUnavailable(dates, counts, i, strict) ==
    IF i = 0 THEN <<>>
    ELSE LET before == CollectUnavailable(dates, counts, i - 1, strict)
             hit == IF strict THEN NumberLeqZero(counts[i])
                    ELSE CountLeqZero(counts[i])
         IN IF hit THEN SetAdd(before, Substring0(dates[i], 10)) ELSE before

\* Mutant of ProcessWith: the series length is not compared with the
\* boundary sequence length, and the positions both have are used.
ProcessWithNoLengthCheck(cats, dates, id, strict) ==
    IF IsArr(cats) /\ IsArr(dates)
    THEN LET k == FindCategory(cats.items, id) IN
         IF k = 0 THEN [unavailable |-> <<>>, warn |-> "category-not-found"]
         ELSE LET avail == cats.items[k].Availabilities
                  n == IF Len(avail.items) < Len(dates.items)
                       THEN Len(avail.items) ELSE Len(dates.items)
              IN IF IsArr(avail)
                 THEN [unavailable |->
                           CollectUnavailable(dates.items, avail.items, n, strict),
                       warn |-> ""]
                 ELSE [unavailable |-> <<>>, warn |-> "length-mismatch"]
    ELSE [unavailable |-> <<>>, warn |-> "structure"]

\* Step 6 of the handler for given boundary field: the unavailable Set and
\* the warning it logs ("" when none).  strict: the typeof check and the
\* Array.isArray(Availabilities) check of part_004.
ProcessWith(cats, dates, id, strict) ==
    IF IsArr(cats) /\ IsArr(dates)
    THEN LET k == FindCategory(cats.items, id) IN
         IF k = 0 THEN [unavailable |-> <<>>, warn |-> "category-not-found"]
         ELSE LET avail == cats.items[k].Availabilities IN
              IF IsArr(avail) /\ Len(avail.items) = Len(dates.items)
              THEN [unavailable |->
                        CollectUnavailable(dates.items, avail.items,
                                           Len(dates.items), strict),
                    warn |-> ""]
              ELSE [unavailable |-> <<>>, warn |-> "length-mismatch"]
    ELSE [unavailable |-> <<>>, warn |-> "structure"]

\* src/api/mews-availability.js, step 6 (and processAvailabilityData of the
\* probing handler): only TimeUnitStartsUtc is read.
ProcessApi(mewsData, id) ==
    ProcessWith(mewsData.CategoryAvailabilities, mewsData.TimeUnitStartsUtc,
                id, FALSE)

\* part_004, step 6: TimeUnitStartsUtc, or DatesUtc when that is absent.
TimeUnitField(mewsData) ==
    IF mewsData.TimeUnitStartsUtc.t # "undefined" THEN mewsData.TimeUnitStartsUtc
    ELSE mewsData.DatesUtc

ProcessP004(mewsData, id) ==
    ProcessWith(mewsData.CategoryAvailabilities, TimeUnitField(mewsData),
                id, TRUE)

\* targetResource && targetResource.Count > 0 for the day's Resources, where
\* targetResource = Resources.find(res => res.CategoryId === id); Resources
\* that is absent has no target (part_001 tests Array.isArray, part_002
\* uses Resources?.find).
DayIsAvailable(resources, id) ==
    /\ IsArr(resources)
    /\ \E i \in 1..Len(resources.items) :
          /\ resources.items[i].CategoryId = id
          /\ \A j \in 1..(i - 1) : resources.items[j].CategoryId # id
          /\ resources.items[i].Count.t = "number"
          /\ resources.items[i].Count.v > 0

\* ResourceAvailabilities.forEach of part_001 and part_002: the Set after
\* the first i day records.  Every day record carries a Date string.
RECURSIVE CollectUnavailableDays(_, _, _)
CollectUnavailableDays(days, id, i) ==
    IF i = 0 THEN <<>>
    ELSE LET before == CollectUnavailableDays(days, id, i - 1)
         IN IF DayIsAvailable(days[i].Resources, id) THEN before
            ELSE SetAdd(before, Substring0(days[i].Date, 10))

\* part_001 and part_002, step 6.
ProcessResources(mewsData, id) ==
    IF IsArr(mewsData.ResourceAvailabilities)
    THEN [unavailable |->
              CollectUnavailableDays(mewsData.ResourceAvailabilities.items, id,
                                     Len(mewsData.ResourceAvailabilities.items)),
          warn |-> ""]
    ELSE [unavailable |-> <<>>, warn |-> "structure"]

(***************************************************************************)
(* The missing-last-day workaround of part_004.                            *)
(***************************************************************************)
\* isLastOfBlock for position i of sortedDates.
IsLastOfBlock(sortedDates, i) ==
    \/ i = Len(sortedDates)
    \/ addOneDay(sortedDates[i]).s # sortedDates[i + 1]

\* Mutant of WorkaroundLoop: finalUnavailableDates.add(nextDay) is missing.
WorkaroundLoopNoAdd(initial, sortedDates, i) == initial

\* Mutant of WorkaroundLoop: only the last element of sortedDates is taken
\* for the end of a block.
WorkaroundLoopLastOnly(initial, sortedDates, i) ==
    IF i = 0 THEN initial
    ELSE LET nextDay == addOneDay(sortedDates[Len(sortedDates)]).s
         IN IF nextDay \notin Elems(initial) THEN SetAdd(initial, nextDay)
            ELSE initial

\* The for loop: finalUnavailableDates after positions 1..i.
RECURSIVE WorkaroundLoop(_, _, _)
WorkaroundLoop(initial, sortedDates, i) ==
    IF i = 0 THEN initial
    ELSE LET before == WorkaroundLoop(initial, sortedDates, i - 1)
             nextDay == addOneDay(sortedDates[i]).s
         IN IF IsLastOfBlock(sortedDates, i) /\ nextDay \notin Elems(initial)
            THEN SetAdd(before, nextDay)
            ELSE before

\* Mutant of Workaround: the loop runs to i <= sortedDates.length, reads
\* undefined past the end, and addOneDay(undefined) throws the RangeError.
WorkaroundOffByOne(initial) == [threw |-> TRUE, list |-> <<>>]

\* Mutant of Workaround: Array.from(finalUnavailableDates) is not sorted.
WorkaroundNoSort(initial) ==
    IF \E i \in 1..Len(initial) : addOneDay(initial[i]).threw
    THEN [threw |-> TRUE, list |-> <<>>]
    ELSE [threw |-> FALSE,
          list |-> WorkaroundLoop(initial, SortStrings(initial), Len(initial))]

\* finalUnavailableArray from initialUnavailableDates; threw when addOneDay
\* throws for some element.
Workaround(initial) ==
    IF \E i \in 1..Len(initial) : addOneDay(initial[i]).threw
    THEN [threw |-> TRUE, list |-> <<>>]
    ELSE [threw |-> FALSE,
          list |-> SortStrings(WorkaroundLoop(initial, SortStrings(initial),
                                              Len(initial)))]

(***************************************************************************)
(* Request inputs.                                                         *)
(***************************************************************************)
\* The day daylight saving time starts in 2025: its midnight is in
\* standard time.
D_2025_03_09 == <<"2", "0", "2", "5", "-", "0", "3", "-", "0", "9">>
D_2025_04_01 == <<"2", "0", "2", "5", "-", "0", "4", "-", "0", "1">>
D_2025_04_02 == <<"2", "0", "2", "5", "-", "0", "4", "-", "0", "2">>
D_2025_04_05 == <<"2", "0", "2", "5", "-", "0", "4", "-", "0", "5">>
D_2025_04_29 == <<"2", "0", "2", "5", "-", "0", "4", "-", "2", "9">>
D_2024_02_27 == <<"2", "0", "2", "4", "-", "0", "2", "-", "2", "7">>
D_2025_12_30 == <<"2", "0", "2", "5", "-", "1", "2", "-", "3", "0">>
\* Pattern-valid, not a calendar date.
D_2025_13_40 == <<"2", "0", "2", "5", "-", "1", "3", "-", "4", "0">>
\* Fails the pattern.
D_25_04_01 == <<"2", "5", "-", "0", "4", "-", "0", "1">>

Cat1 == <<"c", "a", "t", "-", "1">>
Cat1Upper == <<"C", "A", "T", "-", "1">>
Cat2 == <<"c", "a", "t", "-", "2">>

\* The handlers of the files that load as modules.
Variants == {"api", "p004", "p001", "p002"}

\* The two handler declarations of part_003 (lines 6 and 137), each taken
\* as the only default export of its file.  The file as it stands declares
\* both, which is a SyntaxError, so neither serves a request.
Part003Handlers == {"luxon", "brute"}

\* Every handler declaration of the repository.
DeclaredHandlers == Variants \cup Part003Handlers

\* The revisions that call resources/getAvailability and read
\* ResourceAvailabilities.
ResourceVariants == {"p001", "p002"}

Methods == {"POST", "GET", "OPTIONS"}

\* The variables every handler requires (part_001 but for the address).
EnvNames == {"MEWS_CLIENT_TOKEN", "MEWS_ACCESS_TOKEN",
             "MEWS_CONNECTOR_API_URL", "MEWS_SERVICE_ID"}

\* The variables a file of the repository reads: the required ones, and
\* MEWS_TIME_ZONE (part_003:3).
ProcessEnvNames == EnvNames \cup {"MEWS_TIME_ZONE"}

\* The value of a variable that is set: a base address with its scheme, a
\* token for the others.
EnvValue(name) ==
    IF name = "MEWS_CONNECTOR_API_URL"
    THEN Str(<<"https://", "api.mews-demo.com">>)
    ELSE Str(<<name>>)

\* Every required variable set, MEWS_TIME_ZONE unset.
FullEnv ==
    [n \in ProcessEnvNames |-> IF n \in EnvNames THEN EnvValue(n) ELSE Undefined]

\* A base address set without its scheme: truthy, and no URL.
NoSchemeEnv ==
    [FullEnv EXCEPT !["MEWS_CONNECTOR_API_URL"] = Str(<<"api.mews-demo.com">>)]

\* process.env: complete, or with one variable unset, or with none set, or
\* with a base address that is no URL.
Envs ==
    {FullEnv, [n \in ProcessEnvNames |-> Undefined], NoSchemeEnv}
    \cup {[FullEnv EXCEPT ![n] = Undefined] : n \in EnvNames}

\* process.env with MEWS_TIME_ZONE set.
TimeZoneEnvs ==
    {[FullEnv EXCEPT !["MEWS_TIME_ZONE"] = Str(<<z>>)] : z \in ZoneNames}

\* const TZ of part_003:3.
TZ(e) ==
    IF Truthy(e["MEWS_TIME_ZONE"]) THEN e["MEWS_TIME_ZONE"].s[1]
    ELSE DefaultTimeZone

VillaIds == {Undefined, Str(<<>>), Str(Cat1)}

DateInputs == {Undefined, Str(D_25_04_01), Str(D_2025_13_40),
               Str(D_2025_03_09), Str(D_2025_04_01), Str(D_2025_04_05)}

NoBody == [t |-> "undefined", villaId |-> Undefined,
           startDate |-> Undefined, endDate |-> Undefined]

\* request.body as Vercel parses it: absent, or an object whose three fields
\* may each be missing.
Bodies ==
    {NoBody}
    \cup {[t |-> "object", villaId |-> v, startDate |-> a, endDate |-> b] :
            v \in VillaIds, a \in DateInputs, b \in DateInputs}

(***************************************************************************)
(* The upstream service (environment).                                     *)
(***************************************************************************)
\* Hours of day at which a modelled upstream service starts its time unit;
\* a request whose boundary timestamps carry another hour is answered 400
\* ("FirstTimeUnitStartUtc is not start of TimeUnit").
UpstreamAnchors == {0, 6, 7, 15, 22, 23}

ErrorStatuses == {400, 500}

StatusText(n) == IF n = 400 THEN "400" ELSE IF n = 500 THEN "500" ELSE "200"

\* Bodies of a non-success answer: a JSON object with a Message, or plain text.
ErrorBodies ==
    {[text |-> "{\"Message\":\"FirstTimeUnitStartUtc is not start of TimeUnit.\"}",
      Message |-> "FirstTimeUnitStartUtc is not start of TimeUnit."],
     [text |-> "Bad Gateway", Message |-> ""]}

\* error: the message of the rejection of fetch or of json().
NoUpstream == [status |-> 0, text |-> "", Message |-> "", error |-> <<>>]

\* "T" hh ":00:00Z": the time part of a boundary the upstream reports.
StampSuffix == <<"T", "2", "2", ":", "0", "0", ":", "0", "0", "Z">>

Stamp(date) == date \o StampSuffix

\* The k boundaries of consecutive days starting at date.
RECURSIVE ConsecutiveStamps(_, _)
ConsecutiveStamps(date, k) ==
    IF k = 0 THEN <<>>
    ELSE <<Stamp(date)>> \o ConsecutiveStamps(DayAfter(date), k - 1)

StartDays == {D_2025_04_01, D_2025_04_29, D_2024_02_27, D_2025_12_30}

\* Boundary sequences of a report that answers for consecutive days.
RegularStamps ==
    {ConsecutiveStamps(d, k) : d \in StartDays, k \in 0..MaxUnits}

\* Boundary sequences out of order or repeating a day.
OddStamps ==
    UNION {[1..k -> {Stamp(D_2025_04_01), Stamp(D_2025_04_02)}] : k \in 1..MaxOdd}

\* A boundary that is no timestamp.
BadStamp == <<"b", "a", "d">>

Entry(id, avail) == [CategoryId |-> Str(id), Availabilities |-> avail]

Report(cats, units, dates) ==
    [t |-> "object", CategoryAvailabilities |-> cats,
     TimeUnitStartsUtc |-> units, DatesUtc |-> dates,
     ResourceAvailabilities |-> NoArray]

\* JSON null: a body that parses but is no object.
NullReport ==
    [t |-> "null", CategoryAvailabilities |-> NoArray,
     TimeUnitStartsUtc |-> NoArray, DatesUtc |-> NoArray,
     ResourceAvailabilities |-> NoArray]

\* A report of the resources endpoint: one record per day.
ResourceReport(days) ==
    [t |-> "object", CategoryAvailabilities |-> NoArray,
     TimeUnitStartsUtc |-> NoArray, DatesUtc |-> NoArray,
     ResourceAvailabilities |-> Arr(days)]

Resource(id, count) == [CategoryId |-> Str(id), Count |-> count]

\* The Resources a day record may carry.
DayResources ==
    {NoArray, Arr(<<>>),
     Arr(<<Resource(Cat1, Num(0))>>),
     Arr(<<Resource(Cat1, Num(1))>>),
     Arr(<<Resource(Cat2, Num(1))>>),
     Arr(<<Resource(Cat2, Num(0)), Resource(Cat1, Num(2))>>)}

\* The day records of k consecutive days starting at date.
DaySeqs(date, k) ==
    {[i \in 1..k |-> [Date |-> ConsecutiveStamps(date, k)[i], Resources |-> r[i]]] :
        r \in [1..k -> DayResources]}

ResourceReports ==
    {ResourceReport(d) : d \in UNION {DaySeqs(D_2025_04_01, k) : k \in 0..MaxOdd}}

CountSeqs(k, vals) == [1..k -> vals]

\* Reports with the target category's series aligned to the boundaries.
AlignedReports ==
    {Report(Arr(<<Entry(Cat1, Arr(c))>>), Arr(u), NoArray) :
        u \in RegularStamps, c \in UNION {CountSeqs(k, {Num(0), Num(1)}) : k \in 0..MaxUnits}}

OddReports ==
    {Report(Arr(<<Entry(Cat1, Arr(c))>>), Arr(u), NoArray) :
        u \in OddStamps,
        c \in UNION {CountSeqs(k, {Num(-1), Num(0), Num(2), Null}) : k \in 1..MaxOdd}}

\* Reports that are anomalous in structure.
AnomalyReports ==
    LET u == ConsecutiveStamps(D_2025_04_01, 2)
        zeros == Arr(<<Num(0), Num(0)>>)
    IN {NullReport,
        Report(NoArray, Arr(u), NoArray),
        Report(Arr(<<Entry(Cat1, zeros)>>), NoArray, NoArray),
        Report(Arr(<<Entry(Cat1, zeros)>>), NoArray, Arr(u)),
        Report(NotAnArray, Arr(u), NoArray),
        Report(Arr(<<Entry(Cat1, zeros)>>), NotAnArray, Arr(u)),
        Report(Arr(<<>>), Arr(u), NoArray),
        Report(Arr(<<Entry(Cat2, zeros)>>), Arr(u), NoArray),
        Report(Arr(<<Entry(Cat1Upper, zeros)>>), Arr(u), NoArray),
        Report(Arr(<<Entry(Cat1Upper, zeros), Entry(Cat1, Arr(<<Num(1), Num(0)>>))>>),
               Arr(u), NoArray),
        Report(Arr(<<Entry(Cat2, zeros), Entry(Cat1, Arr(<<Num(1), Num(0)>>))>>),
               Arr(u), NoArray),
        Report(Arr(<<Entry(Cat1, NoArray)>>), Arr(u), NoArray),
        Report(Arr(<<Entry(Cat1, Arr(<<Num(0)>>))>>), Arr(u), NoArray),
        Report(Arr(<<Entry(Cat1, Arr(<<Num(0)>>))>>), Arr(<<BadStamp>>), NoArray)}

\* Reports whose series for the target category is shorter or longer than
\* the boundary sequence.
MismatchReports ==
    UNION {{Report(Arr(<<Entry(Cat1, Arr(c))>>),
                   Arr(ConsecutiveStamps(D_2025_04_01, k)), NoArray) :
               c \in UNION {CountSeqs(j, {Num(0), Num(1)}) : j \in (0..3) \ {k}}} :
           k \in 0..2}

Reports ==
    {r \in AlignedReports \cup OddReports :
        Len(r.CategoryAvailabilities.items[1].Availabilities.items)
            = Len(r.TimeUnitStartsUtc.items)}
    \cup AnomalyReports
    \cup MismatchReports
    \cup ResourceReports

\* The reports the upstream answers with while two requests are in flight:
\* the two categories differ in both shapes of report.
PairReports ==
    LET u == ConsecutiveStamps(D_2025_04_01, 2) IN
    {NullReport,
     Report(Arr(<<Entry(Cat1, Arr(<<Num(0), Num(1)>>)),
                  Entry(Cat2, Arr(<<Num(1), Num(0)>>))>>), Arr(u), NoArray),
     Report(Arr(<<Entry(Cat2, Arr(<<Num(0), Num(0)>>))>>), Arr(u), NoArray),
     ResourceReport(<<[Date |-> u[1],
                       Resources |-> Arr(<<Resource(Cat1, Num(1))>>)],
                      [Date |-> u[2],
                       Resources |-> Arr(<<Resource(Cat2, Num(1))>>)]>>)}

(***************************************************************************)
(* Upstream request construction.                                          *)
(***************************************************************************)
TimeOfDay(hour) ==
    <<"T">> \o Pad2(hour) \o <<":", "0", "0", ":", "0", "0", ".", "0", "0", "0", "Z">>

\* Hour of the day-start anchor each handler sends.
ApiStartHour == 15
P004StartHour == 22
\* possibleHours of the probing handler: 0 .. NumHours - 1.
NumHours == 24

\* formatToMewsUtc of src/api/mews-availability.js: the date at 15:00 UTC
\* through new Date(...).toISOString(); when that is an Invalid Date the
\* error is caught and the string falls back to midnight.
formatToMewsUtc(dateString) ==
    IF DateParses(dateString)
    THEN FormatDate(Normalize(DateFields(dateString))) \o TimeOfDay(ApiStartHour)
    ELSE dateString \o TimeOfDay(0)

\* .startOf('day').toUTC().toISO() of a calendar day in the zone z: the
\* same day in UTC for a zone at or west of UTC, the day before for a zone
\* east of it.
StartOfDayInZone(z, dateString) ==
    LET f == DateFields(dateString)
        o == ZoneOffsetHours(z, f)
    IN IF o <= 0 THEN dateString \o TimeOfDay(-o)
       ELSE FormatDate(PrevDayFields(f)) \o TimeOfDay(24 - o)

\* formatToMewsUtc of part_003:51-58: the start of the day in the time zone
\* TZ, in UTC; toISO() of an invalid DateTime (a date that is none, or a
\* zone that is none) is null.
formatToMewsUtcInZone(zone, dateString) ==
    IF ZoneIsValid(zone) /\ LuxonValid(dateString)
    THEN Str(StartOfDayInZone(zone, dateString))
    ELSE JsNull

\* formatToMewsRequiredTime of part_004: the pattern is tested again (it
\* throws when the test fails) and 22:00 UTC is appended.
formatToMewsRequiredTime(dateString) ==
    [threw |-> ~DatePatternTest(dateString),
     s |-> dateString \o TimeOfDay(P004StartHour)]

\* formatTimeWithHour of the probing handler.
formatTimeWithHour(dateString, hour) == dateString \o TimeOfDay(hour)

\* `${startDate}T00:00:00Z` and `${endDate}T23:59:59Z` of part_001 and
\* part_002.
StartOfDayUtc(dateString) ==
    dateString \o <<"T", "0", "0", ":", "0", "0", ":", "0", "0", "Z">>

EndOfDayUtc(dateString) ==
    dateString \o <<"T", "2", "3", ":", "5", "9", ":", "5", "9", "Z">>

\* new URL(input) of fetch: the input needs a scheme.
UrlParses(chars) == Len(chars) >= 2 /\ chars[1] \in {"https://", "http://"}

\* process.env.MEWS_CONNECTOR_API_URL || "https://api.mews.com" of part_001.
DefaultBaseUrl == <<"https://", "api.mews.com">>

BaseUrl(v, e) ==
    IF v = "p001" /\ ~Truthy(e["MEWS_CONNECTOR_API_URL"]) THEN DefaultBaseUrl
    ELSE e["MEWS_CONNECTOR_API_URL"].s

\* mewsEndpoint of the handler v.
MewsEndpoint(v, e) ==
    BaseUrl(v, e)
    \o <<IF v \in ResourceVariants
         THEN "/api/connector/v1/resources/getAvailability"
         ELSE "/api/connector/v1/services/getAvailability">>

\* The name the handlers of the services endpoint give for themselves.
ClientName == "Kosmos_Availability_Check_1.0"

NoPayload ==
    [ClientToken |-> Undefined, AccessToken |-> Undefined,
     Client |-> Undefined, ServiceId |-> Undefined,
     FirstTimeUnitStartUtc |-> Undefined,
     LastTimeUnitStartUtc |-> Undefined, StartUtc |-> Undefined,
     EndUtc |-> Undefined, SpaceCategoryIds |-> Undefined,
     CategoryIds |-> Undefined]

\* The boundary timestamp the handler v sends for a date of a validated
\* body, at probing hour h.
TimeUnitStart(v, e, dateString, h) ==
    IF v = "api" THEN Str(formatToMewsUtc(dateString))
    ELSE IF v = "p004" THEN Str(formatToMewsRequiredTime(dateString).s)
    ELSE IF v = "brute" THEN Str(formatTimeWithHour(dateString, h))
    ELSE IF v = "luxon" THEN formatToMewsUtcInZone(TZ(e), dateString)
    ELSE Undefined

\* Mutant of MewsPayload: the earlier of the two dates is sent as the first
\* boundary and the later as the last.
MewsPayloadReordered(v, e, b, h) ==
    LET swap == StrLess(b.endDate.s, b.startDate.s)
        first == IF swap THEN b.endDate.s ELSE b.startDate.s
        last == IF swap THEN b.startDate.s ELSE b.endDate.s
    IN [ClientToken |-> e["MEWS_CLIENT_TOKEN"],
        AccessToken |-> e["MEWS_ACCESS_TOKEN"],
        Client |-> IF v \in ResourceVariants
                   THEN Undefined ELSE Str(<<ClientName>>),
        ServiceId |-> e["MEWS_SERVICE_ID"],
        FirstTimeUnitStartUtc |-> TimeUnitStart(v, e, first, h),
        LastTimeUnitStartUtc |-> TimeUnitStart(v, e, last, h),
        StartUtc |-> IF v \in ResourceVariants
                     THEN Str(StartOfDayUtc(first)) ELSE Undefined,
        EndUtc |-> IF v \in ResourceVariants
                   THEN Str(EndOfDayUtc(last)) ELSE Undefined,
        SpaceCategoryIds |-> IF v = "p001" THEN Arr(<<b.villaId>>) ELSE Undefined,
        CategoryIds |-> IF v = "p002" THEN Arr(<<b.villaId>>) ELSE Undefined]

\* mewsPayload of the handler v for a validated body, at probing hour h.
MewsPayload(v, e, b, h) ==
    [ClientToken |-> e["MEWS_CLIENT_TOKEN"],
     AccessToken |-> e["MEWS_ACCESS_TOKEN"],
     Client |-> IF v \in ResourceVariants
                THEN Undefined ELSE Str(<<ClientName>>),
     ServiceId |-> e["MEWS_SERVICE_ID"],
     FirstTimeUnitStartUtc |-> TimeUnitStart(v, e, b.startDate.s, h),
     LastTimeUnitStartUtc |-> TimeUnitStart(v, e, b.endDate.s, h),
     StartUtc |-> IF v \in ResourceVariants
                  THEN Str(StartOfDayUtc(b.startDate.s)) ELSE Undefined,
     EndUtc |-> IF v \in ResourceVariants
                THEN Str(EndOfDayUtc(b.endDate.s)) ELSE Undefined,
     SpaceCategoryIds |-> IF v = "p001" THEN Arr(<<b.villaId>>) ELSE Undefined,
     CategoryIds |-> IF v = "p002" THEN Arr(<<b.villaId>>) ELSE Undefined]

\* The hour of day a boundary timestamp of the payload carries.
StampHour(stamp) == 10 * DigitVal(stamp[12]) + DigitVal(stamp[13])

\* Whether the upstream service may answer the payload with a success: the
\* resources endpoint takes any interval, the services endpoint a boundary
\* at the start of its time unit.
UpstreamAccepts(payload) ==
    IF payload.FirstTimeUnitStartUtc.t = "string"
    THEN StampHour(payload.FirstTimeUnitStartUtc.s) \in UpstreamAnchors
    ELSE payload.StartUtc.t = "string"

(***************************************************************************)
(* Validation.                                                             *)
(***************************************************************************)
\* The handler's environment check: all four variables are truthy.
EnvComplete(e) == \A n \in EnvNames : Truthy(e[n])

\* The environment check of the handler v.  part_001 gives
\* MEWS_CONNECTOR_API_URL the default "https://api.mews.com" and checks the
\* other three variables only.
EnvOk(v, e) ==
    IF v = "p001"
    THEN \A n \in EnvNames \ {"MEWS_CONNECTOR_API_URL"} : Truthy(e[n])
    ELSE EnvComplete(e)

\* Mutant of AnswersOptions: no revision has the OPTIONS branch.
AnswersOptionsNever(v) == FALSE

\* Whether the handler v has the OPTIONS branch (part_001 and part_002
\* answer every method but POST with 405; the OPTIONS export of part_002 is
\* not the function the platform invokes).
AnswersOptions(v) == v \notin ResourceVariants

\* Mutant of BodyValid: the pattern test of endDate is missing.
BodyValidNoEndPattern(b) ==
    /\ b.t = "object"
    /\ Truthy(b.villaId)
    /\ Truthy(b.startDate)
    /\ Truthy(b.endDate)
    /\ DatePatternTest(b.startDate.s)

\* The body check of step 3: destructuring an absent body throws; a field
\* that is missing or empty, or a date that fails the pattern, throws the
\* validation error.
BodyValid(b) ==
    /\ b.t = "object"
    /\ Truthy(b.villaId)
    /\ Truthy(b.startDate)
    /\ Truthy(b.endDate)
    /\ DatePatternTest(b.startDate.s)
    /\ DatePatternTest(b.endDate.s)

MsgValidation ==
    "Missing or invalid parameters: villaId, startDate, endDate required (YYYY-MM-DD)."
MsgDestructure ==
    "Cannot destructure property 'villaId' of 'request.body' as it is undefined."
MsgConfig == "Server configuration error."
MsgInternal == "An internal server error occurred."
MsgNoFormat == "Could not find a valid time format for Mews API."
\* error.message of a fetch the network failed.
MsgFetchFailed == "fetch failed"
\* error.message of fetch for an endpoint that is no URL.
MsgUrl == "Failed to parse URL from "
\* error.message of json() for a body that is no JSON: the text depends on
\* the version of the runtime and on the body (here <html>, or nothing).
JsonErrorMessages ==
    {"Unexpected token < in JSON at position 0",
     "Unexpected token '<', \"<html>\" is not valid JSON",
     "Unexpected end of JSON input"}

\* error.message of the rejection of fetch(mewsEndpoint, ...) by handler v.
FetchFailureMessage(v, e) ==
    IF UrlParses(MewsEndpoint(v, e)) THEN <<MsgFetchFailed>>
    ELSE <<MsgUrl>> \o MewsEndpoint(v, e)
MsgNullData == "Cannot read properties of null (reading 'CategoryAvailabilities')"
MsgNullUnits == "Cannot read properties of null (reading 'TimeUnitStartsUtc')"
MsgNullResources ==
    "Cannot read properties of null (reading 'ResourceAvailabilities')"
MsgTriedAll ==
    "Tried all 24 hours (0-23) and none were accepted as valid 'start of TimeUnit'"
MsgRange == "Invalid time value"

\* error.message of the validation catch.
ValidationMessage(b) == IF b.t = "object" THEN MsgValidation ELSE MsgDestructure

(***************************************************************************)
(* Responses.                                                              *)
(***************************************************************************)
NoResponse ==
    [status |-> 0, text |-> <<>>, error |-> <<>>, details |-> <<>>,
     debug |-> <<>>, hasList |-> FALSE, unavailable |-> <<>>,
     workingHour |-> -1, allow |-> FALSE]

\* response.status(s).end(text)
EndResponse(s, text, allow) ==
    [NoResponse EXCEPT !.status = s, !.text = text, !.allow = allow]

\* response.status(s).json({ error, details })
ErrorResponse(s, msg, details) ==
    [NoResponse EXCEPT !.status = s, !.error = msg, !.details = details]

\* response.status(500).json({ error, _debug }) after the last probing hour.
ExhaustedResponse ==
    [NoResponse EXCEPT !.status = 500, !.error = <<MsgNoFormat>>,
                       !.debug = <<MsgTriedAll>>]

\* response.status(200).json({ unavailable, _debug: { workingHour } })
ListResponse(list, hour) ==
    [NoResponse EXCEPT !.status = 200, !.hasList = TRUE,
                       !.unavailable = list, !.workingHour = hour]

\* error.message of the exception thrown for a non-success upstream answer.
UpstreamFailureMessage(v, status, body) ==
    IF v = "p004"
    THEN <<"Mews API request failed with status ", StatusText(status),
           ". Message: ", IF body.Message # "" THEN body.Message ELSE body.text>>
    ELSE <<"Mews API request failed with status ", StatusText(status)>>

\* The 500 response of the outer catch for an exception with the message msg.
CatchResponse(v, msg) ==
    IF v = "p004" THEN ErrorResponse(500, <<MsgInternal>>, msg)
    ELSE ErrorResponse(500, <<MsgInternal>>, <<>>)

\* Mutant of Interpret: a report without its two lists is an exception.
InterpretStrict(v, data, id) ==
    IF \/ data.t = "null"
       \/ /\ v \notin ResourceVariants
          /\ ~(/\ IsArr(data.CategoryAvailabilities)
               /\ IsArr(IF v = "p004" THEN TimeUnitField(data)
                        ELSE data.TimeUnitStartsUtc))
    THEN [threw |-> TRUE, msg |-> <<MsgNullData>>,
          raw |-> <<>>, list |-> <<>>, warn |-> ""]
    ELSE IF v \in ResourceVariants
    THEN LET p == ProcessResources(data, id)
         IN [threw |-> FALSE, msg |-> <<>>, raw |-> p.unavailable,
             list |-> p.unavailable, warn |-> p.warn]
    ELSE IF v = "p004"
    THEN LET p == ProcessP004(data, id)
             w == Workaround(p.unavailable)
         IN [threw |-> w.threw,
             msg |-> IF w.threw THEN <<MsgRange>> ELSE <<>>,
             raw |-> p.unavailable, list |-> w.list, warn |-> p.warn]
    ELSE LET p == ProcessApi(data, id)
         IN [threw |-> FALSE, msg |-> <<>>, raw |-> p.unavailable,
             list |-> p.unavailable, warn |-> p.warn]

\* Outcome of steps 6 and 7 for a parsed report: the exception message when
\* one is thrown, else the raw Set, the list sent and the warning logged.
Interpret(v, data, id) ==
    IF data.t = "null"
    THEN [threw |-> TRUE,
          msg |-> IF v = "p004" THEN <<MsgNullUnits>>
                  ELSE IF v \in ResourceVariants THEN <<MsgNullResources>>
                  ELSE <<MsgNullData>>,
          raw |-> <<>>, list |-> <<>>, warn |-> ""]
    ELSE IF v \in ResourceVariants
    THEN LET p == ProcessResources(data, id)
         IN [threw |-> FALSE, msg |-> <<>>, raw |-> p.unavailable,
             list |-> p.unavailable, warn |-> p.warn]
    ELSE IF v = "p004"
    THEN LET p == ProcessP004(data, id)
             w == Workaround(p.unavailable)
         IN [threw |-> w.threw,
             msg |-> IF w.threw THEN <<MsgRange>> ELSE <<>>,
             raw |-> p.unavailable, list |-> w.list, warn |-> p.warn]
    ELSE LET p == ProcessApi(data, id)
         IN [threw |-> FALSE, msg |-> <<>>, raw |-> p.unavailable,
             list |-> p.unavailable, warn |-> p.warn]

(***************************************************************************)
(* State of the invocation of the handler that is running, and of the      *)
(* invocations of the same process that are suspended at an await.         *)
(***************************************************************************)
VARIABLES
    query,          \* the request object the platform passed: method, body
    others,         \* the suspended invocations: their request and locals
    variant,        \* the handler revision serving the request
    method,         \* request.method
    env,            \* process.env
    body,           \* request.body
    pc,             \* "invoked", "fetch", "text", "json" (awaits), "done"
    hour,           \* loop variable of the probing handler
    nCalls,         \* fetch calls issued so far
    mewsPayload,    \* body of the last upstream request
    upstream,       \* status and error body of the last upstream answer
    mewsData,       \* the parsed upstream report
    initialUnavailableDates,  \* the raw unavailable Set
    response,       \* the response sent to the caller
    nResponses,     \* responses sent so far
    log             \* kinds of the diagnostics written to the console

vars == <<variant, method, env, body, pc, hour, nCalls, mewsPayload, upstream,
          mewsData, initialUnavailableDates, response, nResponses, log,
          query, others>>

NoData ==
    [t |-> "none", CategoryAvailabilities |-> NoArray,
     TimeUnitStartsUtc |-> NoArray, DatesUtc |-> NoArray,
     ResourceAvailabilities |-> NoArray]

\* MEWS_TIME_ZONE is read by part_003:3 for the formatToMewsUtc of the first
\* declaration only; the requests to the other handlers are taken with it
\* unset.
InitWith(handlers) ==
    /\ variant \in handlers
    /\ method \in Methods
    /\ env \in Envs \cup (IF variant = "luxon" THEN TimeZoneEnvs ELSE {})
    /\ body \in Bodies
    /\ pc = "invoked"
    /\ hour = 0
    /\ nCalls = 0
    /\ mewsPayload = NoPayload
    /\ upstream = NoUpstream
    /\ mewsData = NoData
    /\ initialUnavailableDates = <<>>
    /\ response = NoResponse
    /\ nResponses = 0
    /\ log = {}
    /\ query = [method |-> method, body |-> body]
    /\ others = <<>>

\* A request to one of the handlers that load.
Init == InitWith(Variants)

\* A request to one of the handler declarations of the repository, those of
\* part_003 taken each alone.
InitDeclared == InitWith(DeclaredHandlers)

\* What no step of the running invocation writes: the deployed revision,
\* the request, the environment, and the other invocations.
request == <<variant, method, env, body, query, others>>

\* The reports the upstream may answer with: every modelled report for a
\* request handled alone, those that tell the two categories apart while
\* a second request is in flight.
UpstreamReports == IF others = <<>> THEN Reports ELSE PairReports

\* Mutant of Send: the handler returns without sending the response.
SendNothing(r) ==
    /\ response' = response
    /\ nResponses' = nResponses
    /\ pc' = "done"

\* A response is sent and the invocation ends.
Send(r) ==
    /\ response' = r
    /\ nResponses' = nResponses + 1
    /\ pc' = "done"

\* Step 1: OPTIONS is answered 204.
HandleOptions ==
    /\ pc = "invoked"
    /\ method = "OPTIONS"
    /\ AnswersOptions(variant)
    /\ Send(EndResponse(204, <<>>, FALSE))
    /\ UNCHANGED <<request, hour, nCalls, mewsPayload, upstream, mewsData,
                   initialUnavailableDates, log>>

\* Step 1: any other method than POST is answered 405 with Allow: POST;
\* part_002 warns of the method first.
RejectMethod ==
    /\ pc = "invoked"
    /\ method # "POST"
    /\ method = "OPTIONS" => ~AnswersOptions(variant)
    /\ Send(EndResponse(405, <<"Method ", method, " Not Allowed">>, TRUE))
    /\ log' = log \cup (IF variant = "p002" THEN {"non-post"} ELSE {})
    /\ UNCHANGED <<request, hour, nCalls, mewsPayload, upstream, mewsData,
                   initialUnavailableDates>>

\* Step 2: a missing environment variable is answered 500.
ConfigError ==
    /\ pc = "invoked"
    /\ method = "POST"
    /\ ~EnvOk(variant, env)
    /\ Send(ErrorResponse(500, <<MsgConfig>>, <<>>))
    /\ log' = log \cup {"config-missing"}
    /\ UNCHANGED <<request, hour, nCalls, mewsPayload, upstream, mewsData,
                   initialUnavailableDates>>

\* Mutant of ValidationError: the body is checked before the environment.
ValidationErrorFirst ==
    /\ pc = "invoked"
    /\ method = "POST"
    /\ ~BodyValid(body)
    /\ Send(ErrorResponse(400, <<ValidationMessage(body)>>, <<>>))
    /\ log' = log \cup {"validation"}
    /\ UNCHANGED <<request, hour, nCalls, mewsPayload, upstream, mewsData,
                   initialUnavailableDates>>

\* Step 3: an invalid body is answered 400 with the message of the error.
ValidationError ==
    /\ pc = "invoked"
    /\ method = "POST"
    /\ EnvOk(variant, env)
    /\ ~BodyValid(body)
    /\ Send(ErrorResponse(400, <<ValidationMessage(body)>>, <<>>))
    /\ log' = log \cup {"validation"}
    /\ UNCHANGED <<request, hour, nCalls, mewsPayload, upstream, mewsData,
                   initialUnavailableDates>>

\* Steps 4 and 5: the payload is built and the fetch is issued (the first
\* await of the handler).
IssueFetch ==
    /\ pc = "invoked"
    /\ method = "POST"
    /\ EnvOk(variant, env)
    /\ BodyValid(body)
    /\ mewsPayload' = MewsPayload(variant, env, body, 0)
    /\ nCalls' = nCalls + 1
    /\ pc' = "fetch"
    /\ log' = log \cup (IF variant = "p001" THEN {} ELSE {"payload"})
    /\ UNCHANGED <<request, hour, upstream, mewsData, initialUnavailableDates,
                   response, nResponses>>

\* The upstream call, or the reading or the interpretation of its answer,
\* failed with an exception of message msg (msg = <<>>: a non-success answer
\* in the probing handler, which throws nothing).  The probing handler
\* catches it inside the loop and goes on with the next hour, and answers 500
\* after the last one; the other handlers answer 500 from the outer catch.
Failed(msg) ==
    IF variant = "brute"
    THEN IF hour < NumHours - 1
         THEN /\ hour' = hour + 1
              /\ mewsPayload' = MewsPayload(variant, env, body, hour + 1)
              /\ nCalls' = nCalls + 1
              /\ pc' = "fetch"
              /\ UNCHANGED <<response, nResponses>>
         ELSE /\ Send(ExhaustedResponse)
              /\ UNCHANGED <<hour, mewsPayload, nCalls>>
    ELSE /\ Send(CatchResponse(variant, msg))
         /\ UNCHANGED <<hour, mewsPayload, nCalls>>

\* fetch rejects: the endpoint is no URL, or the network failed.
FetchRejects ==
    /\ pc = "fetch"
    /\ upstream' = [NoUpstream EXCEPT !.error = FetchFailureMessage(variant, env)]
    /\ Failed(FetchFailureMessage(variant, env))
    /\ log' = log \cup {"exception"}
    /\ UNCHANGED <<request, mewsData, initialUnavailableDates>>

\* fetch resolves with a status (the endpoint is a URL); a success only for
\* a boundary hour the upstream service accepts.  part_001 does not log the
\* status here.
FetchResolves ==
    /\ pc = "fetch"
    /\ UrlParses(MewsEndpoint(variant, env))
    /\ \E st \in ErrorStatuses \cup {200} :
        /\ st = 200 => UpstreamAccepts(mewsPayload)
        /\ upstream' = [NoUpstream EXCEPT !.status = st]
        /\ pc' = IF st = 200 THEN "json" ELSE "text"
    /\ log' = log \cup (IF variant = "p001" THEN {} ELSE {"mews-status"})
    /\ UNCHANGED <<request, hour, nCalls, mewsPayload, mewsData,
                   initialUnavailableDates, response, nResponses>>

\* The body of a non-success answer is read and logged (by part_001 together
\* with the status), and the failure is raised.
ReadErrorText ==
    /\ pc = "text"
    /\ \E b \in ErrorBodies :
        /\ upstream' = [upstream EXCEPT !.text = b.text, !.Message = b.Message]
        /\ Failed(IF variant = "brute" THEN <<>>
                  ELSE UpstreamFailureMessage(variant, upstream.status, b))
    /\ log' = log \cup {"mews-error-body"}
                  \cup (IF variant = "p001" THEN {"mews-status"} ELSE {})
                  \cup (IF variant = "brute" THEN {} ELSE {"exception"})
    /\ UNCHANGED <<request, mewsData, initialUnavailableDates>>

\* json() rejects: the body of a success answer is no JSON.
JsonRejects ==
    /\ pc = "json"
    /\ \E m \in JsonErrorMessages :
        /\ upstream' = [upstream EXCEPT !.error = <<m>>]
        /\ Failed(<<m>>)
    /\ log' = log \cup {"exception"}
    /\ UNCHANGED <<request, mewsData, initialUnavailableDates>>

\* json() resolves: steps 6 and 7 run to the response without another await.
\* part_001 has no "Request Success" line.
JsonResolves ==
    /\ pc = "json"
    /\ \E data \in UpstreamReports :
        LET r == Interpret(variant, data, body.villaId) IN
        /\ mewsData' = data
        /\ initialUnavailableDates' = r.raw
        /\ IF r.threw
           THEN /\ Failed(r.msg)
                /\ log' = log \cup {"exception"}
           ELSE /\ Send(ListResponse(r.list,
                                     IF variant = "brute" THEN hour ELSE -1))
                /\ log' = log \cup (IF variant = "p001" THEN {} ELSE {"success"})
                              \cup (IF r.warn = "" THEN {} ELSE {r.warn})
                /\ UNCHANGED <<hour, mewsPayload, nCalls>>
    /\ UNCHANGED <<request, upstream>>

(***************************************************************************)
(* Two requests in one process.  The platform may invoke the handler for a *)
(* second request while the first is suspended at an await; the event loop *)
(* runs one of them at a time and changes over only at an await.           *)
(***************************************************************************)
\* Mutant of Resumed: villaId, startDate and endDate are declared at module
\* level, so the invocation that resumes finds what the last one wrote.
ResumedShared(own, last) == last

\* What the invocation that resumes reads from a variable declared inside
\* the handler (let villaId, startDate, endDate): its own binding, whatever
\* another invocation has written to its binding since.
Resumed(own, last) == own

\* The request and the locals of the running invocation.
Current ==
    [query |-> query, method |-> method, body |-> body, pc |-> pc,
     hour |-> hour, nCalls |-> nCalls, mewsPayload |-> mewsPayload,
     upstream |-> upstream, mewsData |-> mewsData,
     initialUnavailableDates |-> initialUnavailableDates,
     response |-> response, nResponses |-> nResponses]

\* An invocation the platform has made for the request q and that has not
\* run yet.
Fresh(q) ==
    [query |-> q, method |-> q.method, body |-> q.body, pc |-> "invoked",
     hour |-> 0, nCalls |-> 0, mewsPayload |-> NoPayload,
     upstream |-> NoUpstream, mewsData |-> NoData,
     initialUnavailableDates |-> <<>>,
     response |-> NoResponse, nResponses |-> 0]

\* The event loop leaves the running invocation at its await (or before its
\* first or after its last step) and runs the suspended one.
Switch ==
    /\ others # <<>>
    /\ others' = <<Current>>
    /\ query' = others[1].query
    /\ method' = others[1].method
    /\ body' = Resumed(others[1].body, body)
    /\ pc' = others[1].pc
    /\ hour' = others[1].hour
    /\ nCalls' = others[1].nCalls
    /\ mewsPayload' = others[1].mewsPayload
    /\ upstream' = others[1].upstream
    /\ mewsData' = others[1].mewsData
    /\ initialUnavailableDates' = others[1].initialUnavailableDates
    /\ response' = others[1].response
    /\ nResponses' = others[1].nResponses
    /\ UNCHANGED <<variant, env, log>>

PairBody(id) ==
    [t |-> "object", villaId |-> Str(id), startDate |-> Str(D_2025_04_01),
     endDate |-> Str(D_2025_04_05)]

\* The requests two clients send at about the same time.
PairQueries ==
    {[method |-> "OPTIONS", body |-> NoBody],
     [method |-> "GET", body |-> NoBody],
     [method |-> "POST", body |-> NoBody],
     [method |-> "POST", body |-> [PairBody(Cat1) EXCEPT !.endDate = Str(D_25_04_01)]],
     [method |-> "POST", body |-> PairBody(Cat1)],
     [method |-> "POST", body |-> PairBody(Cat2)]}

PairEnvs == {FullEnv, [FullEnv EXCEPT !["MEWS_ACCESS_TOKEN"] = Undefined]}

InitPair ==
    /\ variant \in Variants
    /\ env \in PairEnvs
    /\ query \in PairQueries
    /\ method = query.method
    /\ body = query.body
    /\ others \in {<<Fresh(q)>> : q \in PairQueries}
    /\ pc = "invoked"
    /\ hour = 0
    /\ nCalls = 0
    /\ mewsPayload = NoPayload
    /\ upstream = NoUpstream
    /\ mewsData = NoData
    /\ initialUnavailableDates = <<>>
    /\ response = NoResponse
    /\ nResponses = 0
    /\ log = {}

NextPair ==
    \/ HandleOptions
    \/ RejectMethod
    \/ ConfigError
    \/ ValidationError
    \/ IssueFetch
    \/ FetchRejects
    \/ FetchResolves
    \/ ReadErrorText
    \/ JsonRejects
    \/ JsonResolves
    \/ Switch

SpecPair == InitPair /\ [][NextPair]_vars

Next ==
    \/ HandleOptions
    \/ RejectMethod
    \/ ConfigError
    \/ ValidationError
    \/ IssueFetch
    \/ FetchRejects
    \/ FetchResolves
    \/ ReadErrorText
    \/ JsonRejects
    \/ JsonResolves

Spec == Init /\ [][Next]_vars

\* The handlers that load and the two declarations of part_003.
SpecDeclared == InitDeclared /\ [][Next]_vars

\* The invocation is scheduled until it returns, and every await settles:
\* the upstream call, and the reading of its answer, returns or fails.
SpecLive == InitDeclared /\ [][Next]_vars /\ WF_vars(Next)

(***************************************************************************)
(* Properties.                                                             *)
(***************************************************************************)
\* The invocation ended with the success response of the handler with the
\* missing-last-day workaround.
CorrectedSuccess ==
    /\ variant = "p004"
    /\ pc = "done"
    /\ response.status = 200
    /\ response.hasList

\* seq lists consecutive calendar days in ascending order.
IsRun(seq) == \A i \in 1..(Len(seq) - 1) : seq[i + 1] = DayAfter(seq[i])

\* seq is strictly ascending in the string order: sorted, no duplicate.
StrictlyAscending(seq) == \A i \in 1..(Len(seq) - 1) : StrLess(seq[i], seq[i + 1])

\* C1 (as claimed): the boundary correction is idempotent: applied to the
\* list it returned, it returns the same list.
C1_Idempotent ==
    CorrectedSuccess =>
        Workaround(response.unavailable).list = response.unavailable

\* C1 (amended): a second pass of the boundary correction keeps every day of
\* the first pass's output and adds exactly the days after its days that it
\* lacks; it returns the same list only when the raw set is empty.
C1_SecondPassGrows ==
    CorrectedSuccess =>
        LET out == response.unavailable
            again == Workaround(out)
        IN /\ ~again.threw
           /\ Elems(again.list)
                = Elems(out) \cup {DayAfter(out[i]) : i \in 1..Len(out)}
           /\ (again.list = out) <=> (initialUnavailableDates = <<>>)

C1_Witness ==
    /\ CorrectedSuccess
    /\ Len(initialUnavailableDates) >= 2
    /\ Len(Workaround(response.unavailable).list) > Len(response.unavailable)

\* A request string that is a calendar date.
IsCalendarDate(v) ==
    /\ Truthy(v)
    /\ DateParses(v.s)
    /\ DateFields(v.s).d <= DaysInMonth(DateFields(v.s).y, DateFields(v.s).m)

\* The query is valid and ordered: both dates are calendar dates and
\* startDate <= endDate.
OrderedQuery ==
    /\ body.t = "object"
    /\ Truthy(body.villaId)
    /\ IsCalendarDate(body.startDate)
    /\ IsCalendarDate(body.endDate)
    /\ ~StrLess(body.endDate.s, body.startDate.s)

\* Every date of the returned list lies in [startDate, endDate + 1].
ListWithinQuery ==
    \A i \in 1..Len(response.unavailable) :
        LET d == response.unavailable[i] IN
        /\ DatePatternTest(d)
        /\ ~StrLess(d, body.startDate.s)
        /\ ~StrLess(DayAfter(body.endDate.s), d)

\* Every boundary of the report carries a day of [startDate, endDate].
ReportWithinQuery ==
    \A x \in Elems(mewsData.TimeUnitStartsUtc.items)
              \cup Elems(mewsData.DatesUtc.items)
              \cup {mewsData.ResourceAvailabilities.items[i].Date :
                        i \in 1..Len(mewsData.ResourceAvailabilities.items)} :
        LET d == Substring0(x, 10) IN
        /\ DatePatternTest(d)
        /\ ~StrLess(d, body.startDate.s)
        /\ ~StrLess(body.endDate.s, d)

\* C2 (as claimed): for a valid ordered query and any successful upstream
\* report, every returned date lies in [startDate, endDate + 1].
C2_WithinRange ==
    (pc = "done" /\ response.status = 200 /\ OrderedQuery) => ListWithinQuery

\* C2 (amended): for a valid ordered query and a successful upstream report
\* whose boundaries all carry days of [startDate, endDate], every returned
\* date lies in [startDate, endDate + 1].
C2_WithinRangeOfReport ==
    (pc = "done" /\ response.status = 200 /\ OrderedQuery /\ ReportWithinQuery)
        => ListWithinQuery

\* The correction added the day after endDate.
C2_Witness ==
    /\ pc = "done"
    /\ response.status = 200
    /\ OrderedQuery
    /\ ReportWithinQuery
    /\ body.startDate # body.endDate
    /\ DayAfter(body.endDate.s) \in Elems(response.unavailable)

\* C3: every success response carries a list of dates that is sorted
\* ascending and has no duplicate.
C3_SortedNoDuplicate ==
    (pc = "done" /\ response.status = 200 /\ response.hasList)
        => StrictlyAscending(response.unavailable)

\* C4: when the raw unavailable set is a single run of k >= 1 consecutive
\* days [d, d+k-1], the corrected list is exactly the k+1 consecutive days
\* [d, d+k].
C4_SingleRun ==
    LET raw == SortStrings(initialUnavailableDates) IN
    (CorrectedSuccess /\ raw # <<>> /\ IsRun(raw)) =>
        /\ Len(response.unavailable) = Len(raw) + 1
        /\ response.unavailable[1] = raw[1]
        /\ IsRun(response.unavailable)

\* A run of at least two days that ends on the last day of a month.
C4_Witness ==
    /\ CorrectedSuccess
    /\ Len(initialUnavailableDates) >= 2
    /\ IsRun(SortStrings(initialUnavailableDates))
    /\ \E i \in 1..Len(response.unavailable) :
          DateFields(response.unavailable[i]).d = 1

\* C5: when the raw unavailable set of a parsed report is empty, the caller
\* receives the success response with an empty list: no day is synthesized.
C5_EmptyStaysEmpty ==
    (pc = "done" /\ mewsData.t = "object" /\ initialUnavailableDates = <<>>)
        => /\ response.status = 200
           /\ response.hasList
           /\ response.unavailable = <<>>

\* The workaround ran on an empty raw set of a report with boundaries.
C5_Witness ==
    /\ CorrectedSuccess
    /\ initialUnavailableDates = <<>>
    /\ Len(TimeUnitField(mewsData).items) >= 2
    /\ "success" \in log
    /\ response.unavailable = <<>>

\* The request reaches the body validation of step 3.
ReachesValidation == method = "POST" /\ EnvOk(variant, env)

\* villaId, startDate or endDate is missing, or a date fails the pattern.
MissingOrMalformed ==
    \/ body.t # "object"
    \/ body.villaId \in {Undefined, Str(<<>>)}
    \/ body.startDate \in {Undefined, Str(<<>>)}
    \/ body.endDate \in {Undefined, Str(<<>>)}
    \/ ~DatePatternTest(body.startDate.s)
    \/ ~DatePatternTest(body.endDate.s)

\* C6: a request that reaches validation with villaId, startDate or endDate
\* missing, or with a date that fails the pattern, is answered 400 with an
\* error message, and no upstream call is ever issued for it.
C6_ValidationRejects ==
    (ReachesValidation /\ MissingOrMalformed) =>
        /\ nCalls = 0
        /\ pc \in {"invoked", "done"}
        /\ pc = "done" => (response.status = 400 /\ response.error # <<>>)

\* Rejected for the pattern of endDate alone.
C6_Witness ==
    /\ pc = "done"
    /\ response.status = 400
    /\ nCalls = 0
    /\ Truthy(body.villaId)
    /\ IsCalendarDate(body.startDate)
    /\ Truthy(body.endDate)
    /\ ~DatePatternTest(body.endDate.s)

\* C7: a request whose startDate or endDate matches the pattern but is no
\* calendar date is rejected before any upstream call is made.
C7_CalendarInvalidRejected ==
    (/\ ReachesValidation
     /\ ~MissingOrMalformed
     /\ ~(IsCalendarDate(body.startDate) /\ IsCalendarDate(body.endDate)))
        => /\ nCalls = 0
           /\ pc = "done" => response.status = 400

\* C8: each request issues at most one call to the upstream service.
C8_AtMostOneCall == nCalls <= 1

\* The pieces of text of the body sent to the caller.
ResponseText ==
    Elems(response.text \o response.error \o response.details \o response.debug)

\* The upstream status and error body, and the credentials.
UpstreamInternals ==
    ({StatusText(upstream.status), upstream.text, upstream.Message} \ {""})
    \cup {env[n].s[1] : n \in {m \in EnvNames : Truthy(env[m])}}

\* C9: when the upstream answers with a non-success status, the caller
\* receives a 500 whose body holds neither the upstream status, nor the
\* upstream error body, nor credentials; these reach only the log.
C9_NoUpstreamLeak ==
    (pc = "done" /\ upstream.status \in ErrorStatuses) =>
        /\ response.status = 500
        /\ ResponseText \cap UpstreamInternals = {}
        /\ {"mews-status", "mews-error-body"} \subseteq log

\* C10: a fault after validation that is no upstream status (the network
\* fails, the body is no JSON, processing throws) is answered by the
\* single-call handlers with the generic 500 and no exception text.
C10_GenericFailure ==
    (/\ pc = "done"
     /\ variant \in {"api", "p004"}
     /\ "exception" \in log
     /\ upstream.status \notin ErrorStatuses)
        => /\ response.status = 500
           /\ response.error = <<MsgInternal>>
           /\ response.details = <<>>

\* The handler reads the report of the services endpoint and the parsed
\* report is well formed: both lists are arrays.
WellFormedReport ==
    /\ variant \notin ResourceVariants
    /\ mewsData.t = "object"
    /\ IsArr(mewsData.CategoryAvailabilities)
    /\ IsArr(mewsData.TimeUnitStartsUtc)

\* The entries of the report that carry the requested category identifier.
TargetEntries ==
    {i \in 1..Len(mewsData.CategoryAvailabilities.items) :
        mewsData.CategoryAvailabilities.items[i].CategoryId = body.villaId}

\* C11: when the target category is absent from a well-formed report, the
\* request is answered 200 with an empty unavailable list and the
\* category-not-found warning is logged.
C11_CategoryAbsent ==
    (pc = "done" /\ WellFormedReport /\ TargetEntries = {}) =>
        /\ response.status = 200
        /\ response.hasList
        /\ response.unavailable = <<>>
        /\ "category-not-found" \in log

\* The report answers for another category, with counts of zero, and the
\* handler with the workaround answered.
C11_Witness ==
    /\ CorrectedSuccess
    /\ WellFormedReport
    /\ TargetEntries = {}
    /\ Len(mewsData.CategoryAvailabilities.items) >= 1
    /\ Len(mewsData.TimeUnitStartsUtc.items) >= 2
    /\ response.unavailable = <<>>
    /\ "category-not-found" \in log

\* The first entry of the report for the requested category.
TargetSeries ==
    mewsData.CategoryAvailabilities.items[
        CHOOSE i \in TargetEntries : \A j \in TargetEntries : i <= j].Availabilities

\* The target category's series is an array whose length differs from the
\* boundary sequence's.
LengthMismatch ==
    /\ WellFormedReport
    /\ TargetEntries # {}
    /\ IsArr(TargetSeries)
    /\ Len(TargetSeries.items) # Len(mewsData.TimeUnitStartsUtc.items)

\* C12: when the target category's series length differs from the boundary
\* sequence length, the request is answered 200 with an empty unavailable
\* list and the length-mismatch warning is logged; no position is used.
C12_LengthMismatch ==
    (pc = "done" /\ LengthMismatch) =>
        /\ response.status = 200
        /\ response.hasList
        /\ response.unavailable = <<>>
        /\ initialUnavailableDates = <<>>
        /\ "length-mismatch" \in log

\* A series with a zero count at a position the boundary sequence has too.
C12_Witness ==
    /\ pc = "done"
    /\ LengthMismatch
    /\ Len(TargetSeries.items) >= 1
    /\ Len(mewsData.TimeUnitStartsUtc.items) >= 1
    /\ TargetSeries.items[1] = Num(0)
    /\ response.status = 200
    /\ response.unavailable = <<>>

\* A required configuration value (client token, access token, service id,
\* base address) is absent.
ConfigMissing == \E n \in EnvNames : ~Truthy(env[n])

\* C13: when a required configuration value is absent, a POST request is
\* answered 500 "Server configuration error." with nothing else in the body,
\* and no upstream call is issued.
C13_ConfigMissing ==
    (method = "POST" /\ ConfigMissing) =>
        /\ nCalls = 0
        /\ pc \in {"invoked", "done"}
        /\ pc = "done" => response = ErrorResponse(500, <<MsgConfig>>, <<>>)

\* The day d of April 2025, d a digit.
Apr2025(d) == <<"2", "0", "2", "5", "-", "0", "4", "-", "0", d>>

\* The query {cat-1, 2025-04-01, 2025-04-05} of the end-to-end scenarios.
ScenarioBody ==
    [t |-> "object", villaId |-> Str(Cat1),
     startDate |-> Str(Apr2025("1")), endDate |-> Str(Apr2025("5"))]

\* The report with the boundary days 2025-04-01 .. 2025-04-05 and the given
\* counts for cat-1.
ScenarioReport(counts) ==
    Report(Arr(<<Entry(Cat1, Arr(counts))>>),
           Arr(<<Stamp(Apr2025("1")), Stamp(Apr2025("2")), Stamp(Apr2025("3")),
                 Stamp(Apr2025("4")), Stamp(Apr2025("5"))>>),
           NoArray)

\* C14: for the query {cat-1, 2025-04-01, 2025-04-05} and the counts
\* [1,1,0,0,1], the raw unavailable set is {04-03, 04-04} and the returned
\* list is exactly [04-03, 04-04, 04-05].
C14_EndToEnd ==
    (/\ pc = "done"
     /\ variant \notin ResourceVariants
     /\ body = ScenarioBody
     /\ mewsData = ScenarioReport(<<Num(1), Num(1), Num(0), Num(0), Num(1)>>))
        => /\ Elems(initialUnavailableDates) = {Apr2025("3"), Apr2025("4")}
           /\ response.status = 200
           /\ response.unavailable
                = <<Apr2025("3"), Apr2025("4"), Apr2025("5")>>

\* The handler with the correction answered the alternating scenario.
Scenario15 ==
    /\ CorrectedSuccess
    /\ body = ScenarioBody
    /\ mewsData = ScenarioReport(<<Num(0), Num(1), Num(0), Num(1), Num(0)>>)

\* C15: for the same query and the counts [0,1,0,1,0], the raw set is
\* {04-01, 04-03, 04-05}, the correction adds 04-02, 04-04 and 04-06, and the
\* returned list is the six consecutive days 2025-04-01 .. 2025-04-06.
C15_Alternating ==
    Scenario15 =>
        /\ Elems(initialUnavailableDates)
             = {Apr2025("1"), Apr2025("3"), Apr2025("5")}
        /\ response.unavailable
             = <<Apr2025("1"), Apr2025("2"), Apr2025("3"),
                 Apr2025("4"), Apr2025("5"), Apr2025("6")>>

C15_Witness ==
    /\ Scenario15
    /\ Len(response.unavailable) = 6
    /\ "success" \in log

\* The response the handler gives the request of the invocation inv when
\* it handles it alone, with the answers the upstream gave to inv: the
\* handler's steps in their order, from the request object the platform
\* passed.
AloneResponse(inv) ==
    LET q == inv.query
        up == inv.upstream
    IN IF q.method = "OPTIONS" /\ AnswersOptions(variant)
       THEN EndResponse(204, <<>>, FALSE)
       ELSE IF q.method # "POST"
       THEN EndResponse(405, <<"Method ", q.method, " Not Allowed">>, TRUE)
       ELSE IF ~EnvOk(variant, env)
       THEN ErrorResponse(500, <<MsgConfig>>, <<>>)
       ELSE IF ~BodyValid(q.body)
       THEN ErrorResponse(400, <<ValidationMessage(q.body)>>, <<>>)
       ELSE IF variant = "brute"
       THEN IF inv.mewsData.t = "object"
            THEN ListResponse(ProcessApi(inv.mewsData, q.body.villaId).unavailable,
                              inv.hour)
            ELSE ExhaustedResponse
       ELSE IF up.status = 0
       THEN CatchResponse(variant, up.error)
       ELSE IF up.status \in ErrorStatuses
       THEN CatchResponse(variant,
                          UpstreamFailureMessage(variant, up.status, up))
       ELSE IF inv.mewsData.t = "none"
       THEN CatchResponse(variant, up.error)
       ELSE LET r == Interpret(variant, inv.mewsData, q.body.villaId)
            IN IF r.threw THEN CatchResponse(variant, r.msg)
               ELSE ListResponse(r.list, -1)

\* An invocation that has ended sent the response it sends alone, once, and
\* still holds the request it was made for.
Stateless(inv) ==
    inv.pc = "done" =>
        /\ inv.response = AloneResponse(inv)
        /\ inv.nResponses = 1
        /\ inv.method = inv.query.method
        /\ inv.body = inv.query.body

\* C16: when two requests are handled concurrently and interleave at their
\* awaits, each one's response equals the response it gets when handled
\* alone with the same request and the same upstream answers.
C16_Stateless ==
    /\ Stateless(Current)
    /\ \A i \in 1..Len(others) : Stateless(others[i])

\* Two requests for different categories were both in flight at the
\* upstream call and both ended with a list, each with its own.
C16_Witness ==
    /\ others # <<>>
    /\ pc = "done"
    /\ others[1].pc = "done"
    /\ query.body.villaId # others[1].query.body.villaId
    /\ response.hasList
    /\ others[1].response.hasList
    /\ response.unavailable # others[1].response.unavailable
    /\ response.unavailable # <<>>
    /\ others[1].response.unavailable # <<>>

\* The constraints of the validator that the body b violates: the category
\* id is missing, a date is missing, a date that is present fails the
\* pattern.
Violations(b) ==
    (IF Truthy(b.villaId) THEN {} ELSE {"category-missing"})
    \cup (IF Truthy(b.startDate) /\ Truthy(b.endDate) THEN {}
          ELSE {"date-missing"})
    \cup (IF \E d \in {b.startDate, b.endDate} :
                Truthy(d) /\ ~DatePatternTest(d.s)
          THEN {"date-pattern"} ELSE {})

\* The bodies that violate exactly one constraint.
SingleViolations ==
    {b \in Bodies : b.t = "object" /\ Cardinality(Violations(b)) = 1}

\* C17: the message of a validation failure identifies the violated
\* constraint: a request that violates one constraint is answered with
\* another message than a request that violates another one.
C17_MessageIdentifiesConstraint ==
    (pc = "done" /\ response.status = 400 /\ body \in SingleViolations) =>
        \A b \in SingleViolations :
            Violations(b) # Violations(body)
                => response.error # <<ValidationMessage(b)>>

\* The last days of the maximal runs of consecutive days of the set R.
RunEnds(R) == {d \in R : DayAfter(d) \notin R}

\* C18: the corrected list holds the raw set R and, for each maximal run of
\* consecutive days of R, the day after the run's last day, and nothing
\* else; that is R united with {d+1 : d in R}; it is sorted ascending
\* without duplicates.
C18_EqualsReference ==
    CorrectedSuccess =>
        LET R == Elems(initialUnavailableDates)
            out == Elems(response.unavailable)
        IN /\ out = R \cup {DayAfter(d) : d \in RunEnds(R)}
           /\ out = R \cup {DayAfter(d) : d \in R}
           /\ StrictlyAscending(response.unavailable)

\* A raw set of at least two runs, one of them of two days or more, that
\* the report gave out of calendar order or with a gap.
C18_Witness ==
    /\ CorrectedSuccess
    /\ Cardinality(RunEnds(Elems(initialUnavailableDates))) >= 2
    /\ Cardinality(Elems(initialUnavailableDates))
         > Cardinality(RunEnds(Elems(initialUnavailableDates)))
    /\ Len(response.unavailable)
         = Len(initialUnavailableDates)
            + Cardinality(RunEnds(Elems(initialUnavailableDates)))

\* The target category's series is as long as the boundary sequence.
AlignedSeries ==
    /\ WellFormedReport
    /\ TargetEntries # {}
    /\ IsArr(TargetSeries)
    /\ Len(TargetSeries.items) = Len(mewsData.TimeUnitStartsUtc.items)

\* The calendar days of the boundaries at the positions whose count
\* satisfies P.
DaysWhere(P(_)) ==
    {Substring0(mewsData.TimeUnitStartsUtc.items[i], 10) :
        i \in {j \in 1..Len(TargetSeries.items) : P(TargetSeries.items[j])}}

IsLow(c) == c.t = "number" /\ c.v <= 0

IsNoNumber(c) == c.t # "number"

\* C19: for a target series as long as the boundary sequence, a day is in
\* the raw unavailable set if and only if it is the day of some boundary
\* whose count is <= 0: every position with a count <= 0 puts its day in
\* the set, and a position with a count > 0 never does (a position whose
\* count is no number may or may not).
C19_RawSetIffLow ==
    (pc = "done" /\ AlignedSeries) =>
        LET raw == Elems(initialUnavailableDates) IN
        /\ DaysWhere(IsLow) \subseteq raw
        /\ raw \subseteq DaysWhere(IsLow) \cup DaysWhere(IsNoNumber)
        /\ (DaysWhere(IsNoNumber) = {}) => raw = DaysWhere(IsLow)

\* One day is reported twice, once with a count > 0 and once with a count
\* <= 0, and is in the raw set.
C19_Witness ==
    /\ pc = "done"
    /\ AlignedSeries
    /\ response.status = 200
    /\ Len(TargetSeries.items) >= 2
    /\ DaysWhere(IsNoNumber) = {}
    /\ LET high(c) == c.t = "number" /\ c.v > 0
       IN /\ DaysWhere(high) \cap DaysWhere(IsLow) # {}
          /\ Elems(initialUnavailableDates) = DaysWhere(IsLow)

\* The time of day of a boundary timestamp of the payload: what follows
\* the date.
TimeOfDayOf(stamp) == SubSeq(stamp, 11, Len(stamp))

\* The UTC times of day the handler's day-start anchor gives: 15:00, 22:00,
\* the hour being probed, or midnight of the time zone in standard and in
\* daylight saving time (07:00 and 06:00 for America/Denver).
AnchorTimes ==
    IF variant = "api" THEN {TimeOfDay(ApiStartHour)}
    ELSE IF variant = "p004" THEN {TimeOfDay(P004StartHour)}
    ELSE IF variant = "brute" THEN {TimeOfDay(hour)}
    ELSE IF ~ZoneIsValid(TZ(env)) THEN {}
    ELSE LET r == ZoneRule(TZ(env))
         IN {TimeOfDay((24 - o) % 24) :
                o \in {r.std} \cup (IF r.dst = "none" THEN {} ELSE {r.std + 1})}

\* C20: in every upstream request for a time-unit range, the time of day of
\* FirstTimeUnitStartUtc equals the time of day of LastTimeUnitStartUtc and
\* is the handler's anchor, whatever pair of dates passed validation.
C20_SameAnchor ==
    (nCalls >= 1 /\ variant \notin ResourceVariants) =>
        /\ mewsPayload.FirstTimeUnitStartUtc.t = "string"
        /\ mewsPayload.LastTimeUnitStartUtc.t = "string"
        /\ TimeOfDayOf(mewsPayload.FirstTimeUnitStartUtc.s)
             = TimeOfDayOf(mewsPayload.LastTimeUnitStartUtc.s)
        /\ TimeOfDayOf(mewsPayload.FirstTimeUnitStartUtc.s) \in AnchorTimes

\* The entries of the report whose identifier equals the requested one when
\* letter case is disregarded.
NearEntries ==
    {i \in 1..Len(mewsData.CategoryAvailabilities.items) :
        FoldCase(mewsData.CategoryAvailabilities.items[i].CategoryId.s)
            = FoldCase(body.villaId.s)}

\* The calendar days of the boundaries at the positions where the series
\* of entry i has a count that satisfies P.
DaysOfEntry(i, P(_)) ==
    LET series == mewsData.CategoryAvailabilities.items[i].Availabilities.items
    IN {Substring0(mewsData.TimeUnitStartsUtc.items[j], 10) :
            j \in {k \in 1..Len(series) : P(series[k])}}

\* The raw set comes from the series of entry i: it holds the days whose
\* count is a number <= 0 and no day whose every count is a number > 0; or
\* the series was dropped for its length.
RawSetFromEntry(i) ==
    LET series == mewsData.CategoryAvailabilities.items[i].Availabilities
        raw == Elems(initialUnavailableDates)
    IN IF IsArr(series) /\ Len(series.items) = Len(mewsData.TimeUnitStartsUtc.items)
       THEN /\ DaysOfEntry(i, IsLow) \subseteq raw
            /\ raw \subseteq DaysOfEntry(i, IsLow) \cup DaysOfEntry(i, IsNoNumber)
       ELSE raw = {} /\ "length-mismatch" \in log

\* C21: the target series is selected by exact, case-sensitive equality of
\* the category identifier: a report whose identifiers all differ from the
\* requested one, be it by letter case alone, is treated as category-absent,
\* and when several entries exist the raw set comes from an entry whose
\* identifier is exactly equal.
C21_ExactMatch ==
    (pc = "done" /\ WellFormedReport) =>
        /\ TargetEntries = {} =>
              /\ response.status = 200
              /\ response.unavailable = <<>>
              /\ initialUnavailableDates = <<>>
              /\ "category-not-found" \in log
        /\ TargetEntries # {} =>
              /\ "category-not-found" \notin log
              /\ \E i \in TargetEntries : RawSetFromEntry(i)

\* The report lists the identifier in another letter case, with counts of
\* zero, before the exactly equal one, and the answer holds the one day the
\* exactly equal entry reports.
C21_Witness ==
    /\ pc = "done"
    /\ WellFormedReport
    /\ TargetEntries # {}
    /\ \E j \in NearEntries \ TargetEntries :
          /\ \A i \in TargetEntries : j < i
          /\ ~RawSetFromEntry(j)
    /\ response.status = 200
    /\ Len(initialUnavailableDates) = 1

\* The request reached validation with a category id and two dates that
\* match the pattern, startDate later than endDate.
ReversedQuery ==
    /\ ReachesValidation
    /\ ~MissingOrMalformed
    /\ StrLess(body.endDate.s, body.startDate.s)

\* The first and the last boundary of the upstream request: the time-unit
\* boundaries of the services endpoint, the interval of the resources
\* endpoint.
FirstBoundary ==
    IF variant \in ResourceVariants THEN mewsPayload.StartUtc
    ELSE mewsPayload.FirstTimeUnitStartUtc

LastBoundary ==
    IF variant \in ResourceVariants THEN mewsPayload.EndUtc
    ELSE mewsPayload.LastTimeUnitStartUtc

\* The boundary carries the day of the date (a calendar date), or it is what
\* a formatter makes of a string that is no calendar date: a timestamp that
\* begins with that string or with the day the Date constructor rolls it
\* over to, or null.
DerivedFrom(stamp, date) ==
    IF IsCalendarDate(date)
    THEN stamp.t = "string" /\ Substring0(stamp.s, 10) = date.s
    ELSE \/ stamp.t = "null"
         \/ stamp.t = "string" /\ Substring0(stamp.s, 10) = date.s
         \/ /\ stamp.t = "string"
            /\ DateParses(date.s)
            /\ Substring0(stamp.s, 10) = FormatDate(Normalize(DateFields(date.s)))

\* C22: a pattern-valid request with startDate later than endDate is not
\* rejected by the validator (it is never answered 400, and it ends only
\* after its upstream call), and it is not reordered: the first boundary of
\* the upstream request is derived from startDate and the last from endDate.
C22_NotReordered ==
    ReversedQuery =>
        /\ "validation" \notin log
        /\ response.status # 400
        /\ pc = "done" => nCalls >= 1
        /\ nCalls >= 1 =>
              /\ DerivedFrom(FirstBoundary, body.startDate)
              /\ DerivedFrom(LastBoundary, body.endDate)

\* Two calendar dates in reverse order went upstream as they came and the
\* request was answered with a list.
C22_Witness ==
    /\ ReversedQuery
    /\ IsCalendarDate(body.startDate)
    /\ IsCalendarDate(body.endDate)
    /\ variant = "api"
    /\ pc = "done"
    /\ response.status = 200
    /\ Substring0(mewsPayload.FirstTimeUnitStartUtc.s, 10) = body.startDate.s
    /\ Substring0(mewsPayload.LastTimeUnitStartUtc.s, 10) = body.endDate.s
    /\ StrLess(mewsPayload.LastTimeUnitStartUtc.s,
               mewsPayload.FirstTimeUnitStartUtc.s)

\* C23: only POST reaches the resolver.  A request of another method is
\* answered without a configuration error, a validation error or an upstream
\* call, whatever the configuration and the body are: OPTIONS with 204 and
\* an empty body (in the revisions that read the services endpoint), any
\* other method with 405, the header Allow: POST and the text
\* "Method <m> Not Allowed".
C23_OnlyPost ==
    /\ nCalls >= 1 => method = "POST"
    /\ method # "POST" =>
          /\ nCalls = 0
          /\ log \subseteq {"non-post"}
          /\ mewsPayload = NoPayload
          /\ pc \in {"invoked", "done"}
          /\ (pc = "done" /\ method = "OPTIONS" /\ variant \notin ResourceVariants)
                => response = EndResponse(204, <<>>, FALSE)
          /\ (pc = "done" /\ method # "OPTIONS") =>
                /\ response.status = 405
                /\ response.allow
                /\ response.text = <<"Method ", method, " Not Allowed">>
                /\ response.error = <<>>

\* An OPTIONS request that came with no body while no configuration value
\* was set was answered 204.
C23_Witness ==
    /\ method = "OPTIONS"
    /\ variant = "api"
    /\ \A n \in EnvNames : ~Truthy(env[n])
    /\ body = NoBody
    /\ pc = "done"
    /\ response.status = 204
    /\ nResponses = 1

ResponseStatuses == {200, 204, 400, 405, 500}

\* At most one response has been sent; one has been sent exactly when the
\* invocation has ended, and its status is one of the five.
OneResponseAtEnd ==
    /\ nResponses <= 1
    /\ (pc = "done") <=> (nResponses = 1)
    /\ nResponses = 0 => response = NoResponse
    /\ nResponses = 1 => response.status \in ResponseStatuses

\* C24: every invocation of the handler ends with exactly one response,
\* with status in {200, 204, 400, 405, 500}, on every path, provided every
\* upstream call returns or fails; no path sends two responses or none.
C24_ExactlyOneResponse ==
    /\ []OneResponseAtEnd
    /\ <>[](pc = "done" /\ nResponses = 1)

\* The probing handler left its loop after the last hour and sent its one
\* response.
C24_Witness ==
    /\ variant = "brute"
    /\ pc = "done"
    /\ hour = NumHours - 1
    /\ nCalls = NumHours
    /\ nResponses = 1
    /\ response = ExhaustedResponse

\* A configuration value the revision requires is absent (the earliest
\* revision falls back to a default base address, so requires three).
RequiredConfigMissing ==
    \E n \in EnvNames :
        /\ env[n] \in {Undefined, Str(<<>>)}
        /\ variant = "p001" => n # "MEWS_CONNECTOR_API_URL"

\* C25: the configuration check precedes body validation: a POST request
\* with both a missing configuration value and an invalid body is answered
\* with the 500 configuration error, never with the 400 validation error,
\* and the body is not inspected: nothing of the validation is logged, and a
\* body that is absent raises nothing.
C25_ConfigBeforeValidation ==
    (method = "POST" /\ RequiredConfigMissing /\ MissingOrMalformed) =>
        /\ nCalls = 0
        /\ "validation" \notin log
        /\ response.status # 400
        /\ pc \in {"invoked", "done"}
        /\ pc = "done" =>
              /\ response = ErrorResponse(500, <<MsgConfig>>, <<>>)
              /\ log = {"config-missing"}

\* A POST without a body, which the destructuring of step 3 would throw
\* on, was answered with the configuration error for the one missing value.
C25_Witness ==
    /\ method = "POST"
    /\ variant = "api"
    /\ env = [FullEnv EXCEPT !["MEWS_SERVICE_ID"] = Undefined]
    /\ body = NoBody
    /\ pc = "done"
    /\ response.status = 500
    /\ response.error = <<MsgConfig>>
    /\ nResponses = 1

\* The list of boundaries the revision reads from the report:
\* TimeUnitStartsUtc, and in the revision with the workaround DatesUtc when
\* TimeUnitStartsUtc is absent.
BoundaryList ==
    IF variant = "p004" /\ mewsData.TimeUnitStartsUtc.t = "undefined"
    THEN mewsData.DatesUtc
    ELSE mewsData.TimeUnitStartsUtc

\* The parsed report is an object that lacks the category list or the
\* boundary list, or has one of them in another shape than an array.
ListsMissing ==
    /\ variant \notin ResourceVariants
    /\ mewsData.t = "object"
    /\ \/ mewsData.CategoryAvailabilities.t # "array"
       \/ BoundaryList.t # "array"

\* A report the handler understands, in which the requested category is
\* available on each of its two days.
AllAvailableReport ==
    Report(Arr(<<[CategoryId |-> body.villaId,
                  Availabilities |-> Arr(<<Num(1), Num(1)>>)]>>),
           Arr(ConsecutiveStamps(D_2025_04_01, 2)), NoArray)

\* C26: a parsed report that lacks the category list or the boundary list,
\* or has one in a non-array shape, is answered 200 with an empty list and
\* the structure warning is logged, no exception is raised (the probing
\* handler may have logged exceptions of earlier hours); the response is the
\* one a report with nothing unavailable gets.
C26_ListsMissing ==
    (pc = "done" /\ ListsMissing) =>
        /\ response.status = 200
        /\ response.hasList
        /\ response.unavailable = <<>>
        /\ response.error = <<>>
        /\ "structure" \in log
        /\ variant # "brute" => "exception" \notin log
        /\ response
             = ListResponse(Interpret(variant, AllAvailableReport, body.villaId).list,
                            response.workingHour)

\* The revision with the workaround got an object where the boundary list
\* belongs, beside a category list with counts of zero, and answered 200
\* with an empty list.
C26_Witness ==
    /\ CorrectedSuccess
    /\ ListsMissing
    /\ mewsData.TimeUnitStartsUtc = NotAnArray
    /\ IsArr(mewsData.DatesUtc)
    /\ TargetEntries # {}
    /\ response.unavailable = <<>>
    /\ "structure" \in log

\* The entries of seq that carry the identifier id, in their order.
RECURSIVE EntriesOf(_, _)
EntriesOf(seq, id) ==
    IF seq = <<>> THEN <<>>
    ELSE IF Head(seq).CategoryId = id
         THEN <<Head(seq)>> \o EntriesOf(Tail(seq), id)
         ELSE EntriesOf(Tail(seq), id)

\* Series another category may carry: none, empty, counts of zero, counts
\* that are no numbers, one count too many.
OtherSeries ==
    {NoArray, Arr(<<>>), Arr(<<Num(0), Num(0)>>), Arr(<<Null, Num(-1)>>),
     Arr(<<Num(0), Num(0), Num(0)>>)}

\* The reports that agree with the parsed report on the boundaries and on
\* the entries of the requested category and differ in the other
\* categories: those are dropped, or entries of another category stand
\* before or behind.
SameTargetReports ==
    LET own == EntriesOf(mewsData.CategoryAvailabilities.items, body.villaId)
        with(cats) == [mewsData EXCEPT !.CategoryAvailabilities = Arr(cats)]
    IN {with(own)}
       \cup {with(<<Entry(Cat2, x)>> \o own) : x \in OtherSeries}
       \cup {with(own \o <<Entry(Cat1Upper, x)>>) : x \in OtherSeries}
       \cup {with(<<Entry(Cat2, x)>> \o mewsData.CategoryAvailabilities.items) :
                x \in OtherSeries}

\* The response of the invocation is the one the handler gives the report r.
ResponseFor(r) ==
    LET o == Interpret(variant, r, body.villaId)
    IN /\ o.threw => response = CatchResponse(variant, o.msg)
       /\ ~o.threw => response = ListResponse(o.list, response.workingHour)
       /\ o.raw = initialUnavailableDates

\* No field of the upstream request names the category.
NoCategoryFilter ==
    /\ mewsPayload.CategoryIds = Undefined
    /\ mewsPayload.SpaceCategoryIds = Undefined
    /\ \A f \in DOMAIN mewsPayload : mewsPayload[f] # body.villaId

\* C27: the result depends only on the target category's series and the
\* boundary sequence: every report that agrees with the parsed one on the
\* boundaries and on the target category's entries, whatever the other
\* categories' series are, gets the response that was sent; and the
\* upstream request carries no category filter.
C27_OnlyTargetSeries ==
    /\ (nCalls >= 1 /\ variant \notin ResourceVariants) => NoCategoryFilter
    /\ (/\ pc = "done"
        /\ variant \notin ResourceVariants
        /\ mewsData.t = "object"
        /\ IsArr(mewsData.CategoryAvailabilities))
          => \A r \in SameTargetReports : ResponseFor(r)

\* The report held another category with counts of zero before the target
\* category, and the answer lists the one day the target's series has.
C27_Witness ==
    /\ pc = "done"
    /\ WellFormedReport
    /\ NoCategoryFilter
    /\ TargetEntries # {}
    /\ \E j \in 1..Len(mewsData.CategoryAvailabilities.items) :
          /\ j \notin NearEntries
          /\ \A i \in TargetEntries : j < i
          /\ ~RawSetFromEntry(j)
    /\ response.status = 200
    /\ Len(response.unavailable) >= 1
    /\ \E r \in SameTargetReports : r # mewsData

====
